---- MODULE Spec2Model ----
(***************************************************************************)
(* The two StyleSheet maintenance scripts of tandapay-mobile:              *)
(*   find_unwrapped_styles.py  (the Scanner)                               *)
(*   fix_stylesheets.py        (the Fixer)                                 *)
(*                                                                         *)
(* A file's text is a sequence of lexical tokens.  A token is a maximal    *)
(* run of word characters ("const", "styles"), one punctuation character   *)
(* ("{", ";"), one quoted module name ("'react-native'") or one white      *)
(* space character (" ", "\n").  The regular expressions and the string    *)
(* methods of the scripts are translated to this token level.              *)
(***************************************************************************)
EXTENDS Integers, Sequences, FiniteSets, TLC

(***************************************************************************)
(* Bounds of the model.                                                    *)
(***************************************************************************)
\* number of paths in the Fixer's target list / the Scanner's enumeration
NumFiles == 2
\* longest generated file text, in lines
MaxLines == 3

(***************************************************************************)
(* Token classes.                                                          *)
(***************************************************************************)
\* \s
WS == {" ", "\n"}

\* the words of the alphabet matched by  \w* [Ss]tyles? \w*
StyleNames == {"styles", "cardStyle"}

\* the words of the alphabet that contain the substring 'StyleSheet'
StyleSheetWords == {"StyleSheet"}

\* first position >= p of c that holds no white space (Len(c)+1 if none): \s*
RECURSIVE SkipWS(_, _)
SkipWS(c, p) ==
  IF p <= Len(c) /\ c[p] \in WS THEN SkipWS(c, p + 1) ELSE p

\* c with the tokens a..b only (empty when a > b)
Slice(c, a, b) == IF a > b THEN << >> ELSE SubSeq(c, a, b)

\* tok is at position p of c
At(c, p, tok) == p >= 1 /\ p <= Len(c) /\ c[p] = tok

\* the tokens of seq pat stand at positions p, p+1, ... of c
LiteralAt(c, p, pat) ==
  /\ p >= 1
  /\ p + Len(pat) - 1 <= Len(c)
  /\ \A k \in 1..Len(pat) : c[p + k - 1] = pat[k]

\* style_pattern, written here with its parts spaced out:
\*     const  \s+  ( \w* [Ss]tyles? \w* )  \s*  =  \s*  {
\* StyleMatch(c, p) is 0 when the pattern does not match at p, and else the
\* position of the "{" that ends the match.
StyleNamePos(c, p) == SkipWS(c, p + 1)

StyleMatch(c, p) ==
  LET q == StyleNamePos(c, p)
      r == SkipWS(c, q + 1)
      s == SkipWS(c, r + 1)
  IN  IF /\ At(c, p, "const")
         /\ q > p + 1
         /\ q <= Len(c) /\ c[q] \in StyleNames
         /\ At(c, r, "=")
         /\ At(c, s, "{")
      THEN s ELSE 0

\* re.findall(style_pattern, content): the captured names, left to right
RECURSIVE FindAllFrom(_, _)
FindAllFrom(c, p) ==
  IF p > Len(c) THEN << >>
  ELSE LET e == StyleMatch(c, p)
       IN  IF e > 0 THEN << c[StyleNamePos(c, p)] >> \o FindAllFrom(c, e + 1)
           ELSE FindAllFrom(c, p + 1)

re_findall_style(c) == FindAllFrom(c, 1)

\* a slip in the replacement: the call is written without .create
WrapOpening_no_create(name) ==
  << "const", " ", name, " ", "=", " ", "StyleSheet", "(", "{" >>

\* the replacement  const \1 = StyleSheet.create({
WrapOpening(name) ==
  << "const", " ", name, " ", "=", " ", "StyleSheet", ".", "create", "(", "{" >>

\* re.sub(style_pattern, replacement, content)
RECURSIVE SubStyleFrom(_, _)
SubStyleFrom(c, p) ==
  IF p > Len(c) THEN << >>
  ELSE LET e == StyleMatch(c, p)
       IN  IF e > 0
           THEN WrapOpening(c[StyleNamePos(c, p)]) \o SubStyleFrom(c, e + 1)
           ELSE << c[p] >> \o SubStyleFrom(c, p + 1)

re_sub_style(c) == SubStyleFrom(c, 1)

(***************************************************************************)
(* Substring tests.                                                        *)
(***************************************************************************)
\* 'StyleSheet' in content
HasStyleSheet(c) == \E p \in 1..Len(c) : c[p] \in StyleSheetWords

\* 'StyleSheet.create' in content  (also re.search(r'StyleSheet\.create'))
HasStyleSheetCreate(c) ==
  \E p \in 1..Len(c) :
    /\ c[p] \in StyleSheetWords
    /\ At(c, p + 1, ".")
    /\ At(c, p + 2, "create")

(***************************************************************************)
(* fix_stylesheet_imports (Step A).                                        *)
(***************************************************************************)
\* rn_import_pattern:  from 'react-native';
RNFrom == << "from", " ", "'react-native'", ";" >>

\* re.search(rn_import_pattern, content)
re_search_rn_import(c) == \E p \in 1..Len(c) : LiteralAt(c, p, RNFrom)

\* re.sub(r"from 'react-native';", r"} from 'react-native';", content)
RECURSIVE SubRNFrom(_, _)
SubRNFrom(c, p) ==
  IF p > Len(c) THEN << >>
  ELSE IF LiteralAt(c, p, RNFrom)
       THEN << "}", " " >> \o RNFrom \o SubRNFrom(c, p + Len(RNFrom))
       ELSE << c[p] >> \o SubRNFrom(c, p + 1)

re_sub_rn_from(c) == SubRNFrom(c, 1)

\* first position >= p of c that holds tok (Len(c)+1 if none)
RECURSIVE FirstTok(_, _, _)
FirstTok(c, p, tok) ==
  IF p <= Len(c) /\ c[p] # tok THEN FirstTok(c, p + 1, tok) ELSE p

\* The pattern of the second substitution, with its parts spaced out:
\*     import  \s*  {  \s*  ( [^}]+ )  \s*  }  \s*  from 'react-native';
\* The group cannot hold a "}", so the "}" of the pattern is the first one
\* after the "{": k.  The group is what stands between the white space that
\* follows the "{" and k, and when there is only white space there, its last
\* character.  ImportMatch is 0 or the position of the ";" ending the match.
ImportBrace(c, p) == SkipWS(c, p + 1)

ImportClose(c, p) == FirstTok(c, ImportBrace(c, p) + 1, "}")

ImportGroup(c, p) ==
  LET q == ImportBrace(c, p)
      k == ImportClose(c, p)
      g == SkipWS(c, q + 1)
  IN  Slice(c, IF g <= k - 1 THEN g ELSE k - 1, k - 1)

ImportMatch(c, p) ==
  LET q == ImportBrace(c, p)
      k == ImportClose(c, p)
      m == SkipWS(c, k + 1)
  IN  IF /\ At(c, p, "import")
         /\ At(c, q, "{")
         /\ k <= Len(c)
         /\ k >= q + 2
         /\ LiteralAt(c, m, RNFrom)
      THEN m + Len(RNFrom) - 1 ELSE 0

\* the replacement  import { \1, StyleSheet } from 'react-native';
ImportWithStyleSheet(group) ==
  << "import", " ", "{", " " >> \o group
    \o << ",", " ", "StyleSheet", " ", "}", " " >> \o RNFrom

RECURSIVE SubImportFrom(_, _)
SubImportFrom(c, p) ==
  IF p > Len(c) THEN << >>
  ELSE LET e == ImportMatch(c, p)
       IN  IF e > 0
           THEN ImportWithStyleSheet(ImportGroup(c, p)) \o SubImportFrom(c, e + 1)
           ELSE << c[p] >> \o SubImportFrom(c, p + 1)

re_sub_rn_import(c) == SubImportFrom(c, 1)

\* react_import_pattern, with its parts spaced out:  ( import React [^;]* ; )
\* 0, or the position of the ";" ending the match
ReactMatch(c, p) ==
  LET k == FirstTok(c, p + 3, ";")
  IN  IF LiteralAt(c, p, << "import", " ", "React" >>) /\ k <= Len(c)
      THEN k ELSE 0

re_search_react_import(c) == \E p \in 1..Len(c) : ReactMatch(c, p) > 0

\* the replacement  \1\nimport { StyleSheet } from 'react-native';
NewImportLine ==
  << "\n", "import", " ", "{", " ", "StyleSheet", " ", "}", " " >> \o RNFrom

RECURSIVE SubReactFrom(_, _)
SubReactFrom(c, p) ==
  IF p > Len(c) THEN << >>
  ELSE LET e == ReactMatch(c, p)
       IN  IF e > 0
           THEN Slice(c, p, e) \o NewImportLine \o SubReactFrom(c, e + 1)
           ELSE << c[p] >> \o SubReactFrom(c, p + 1)

re_sub_react_import(c) == SubReactFrom(c, 1)

fix_stylesheet_imports(c) ==
  IF HasStyleSheet(c) THEN c
  ELSE IF re_search_rn_import(c) THEN re_sub_rn_import(re_sub_rn_from(c))
  ELSE IF re_search_react_import(c) THEN re_sub_react_import(c)
  ELSE c

(***************************************************************************)
(* Lines: content.split('\n'), '\n'.join(lines), line.strip(), str.count,  *)
(* str.replace.                                                            *)
(***************************************************************************)
RECURSIVE SplitFrom(_, _, _)
SplitFrom(c, p, cur) ==
  IF p > Len(c) THEN << cur >>
  ELSE IF c[p] = "\n" THEN << cur >> \o SplitFrom(c, p + 1, << >>)
  ELSE SplitFrom(c, p + 1, Append(cur, c[p]))

split_lines(c) == SplitFrom(c, 1, << >>)

RECURSIVE join_lines(_)
join_lines(ls) ==
  IF Len(ls) = 0 THEN << >>
  ELSE IF Len(ls) = 1 THEN ls[1]
  ELSE ls[1] \o << "\n" >> \o join_lines(Tail(ls))

RECURSIVE RStrip(_)
RStrip(l) ==
  IF Len(l) > 0 /\ l[Len(l)] \in WS THEN RStrip(SubSeq(l, 1, Len(l) - 1)) ELSE l

strip(l) == RStrip(Slice(l, SkipWS(l, 1), Len(l)))

\* line.count(tok)
count(l, tok) == Cardinality({p \in 1..Len(l) : l[p] = tok})

\* line.replace('};', '});')
RECURSIVE ReplaceCloseFrom(_, _)
ReplaceCloseFrom(l, p) ==
  IF p > Len(l) THEN << >>
  ELSE IF LiteralAt(l, p, << "}", ";" >>)
       THEN << "}", ")", ";" >> \o ReplaceCloseFrom(l, p + 2)
       ELSE << l[p] >> \o ReplaceCloseFrom(l, p + 1)

replace_close(l) == ReplaceCloseFrom(l, 1)

(***************************************************************************)
(* wrap_styles_with_stylesheet, lines 60-86 (Step B).                      *)
(***************************************************************************)
\* re.match of the wrapped opening on line.strip(), parts spaced out:
\*     const \s+ \w* [Ss]tyles? \w* \s* = \s* StyleSheet \. create \( {
IsWrappedOpening(line) ==
  LET l == strip(line)
      q == SkipWS(l, 2)
      r == SkipWS(l, q + 1)
      s == SkipWS(l, r + 1)
  IN  /\ At(l, 1, "const")
      /\ q > 2
      /\ q <= Len(l) /\ l[q] \in StyleNames
      /\ At(l, r, "=")
      /\ LiteralAt(l, s, << "StyleSheet", ".", "create", "(", "{" >>)

\* the inner loop with the break of line 82 inside the if of line 79
RECURSIVE ScanClose_break_inside_if(_, _, _)
ScanClose_break_inside_if(lines, j, bc) ==
  IF j > Len(lines) THEN lines
  ELSE LET n == bc + count(lines[j], "{") - count(lines[j], "}")
       IN  IF n = 0 /\ count(lines[j], "}") > 0 /\ strip(lines[j]) = << "}", ";" >>
           THEN [lines EXCEPT ![j] = replace_close(lines[j])]
           ELSE ScanClose_break_inside_if(lines, j + 1, n)

\* the inner loop, for j in range(i, len(lines)), entered at j with the
\* running brace_count bc: the lines after it
RECURSIVE ScanClose(_, _, _)
ScanClose(lines, j, bc) ==
  IF j > Len(lines) THEN lines
  ELSE LET n == bc + count(lines[j], "{") - count(lines[j], "}")
       IN  IF n = 0 /\ count(lines[j], "}") > 0
           THEN IF strip(lines[j]) = << "}", ";" >>
                THEN [lines EXCEPT ![j] = replace_close(lines[j])]
                ELSE lines
           ELSE ScanClose(lines, j + 1, n)

\* the outer loop, for i, line in enumerate(lines), entered at i
RECURSIVE CloseLoop(_, _)
CloseLoop(lines, i) ==
  IF i > Len(lines) THEN lines
  ELSE IF IsWrappedOpening(lines[i])
       THEN CloseLoop(ScanClose(lines, i, 0), i + 1)
       ELSE CloseLoop(lines, i + 1)

\* the body of "if matches:", from the content Step A returned
wrap_declarations(c) == join_lines(CloseLoop(split_lines(re_sub_style(c)), 1))

(***************************************************************************)
(* Console lines.                                                          *)
(***************************************************************************)
Msg(kind, file, style_vars, n) ==
  [kind |-> kind, file |-> file, vars |-> style_vars, count |-> n]

\* wrap_styles_with_stylesheet without the early return of lines 47-50
wrap_without_skip(file_path, c) ==
  LET a == fix_stylesheet_imports(c)
      matches == re_findall_style(a)
      modified == matches # << >>
  IN  IF modified
      THEN [ret |-> TRUE, write |-> TRUE, content |-> wrap_declarations(a),
            imports |-> a,
            out |-> << Msg("modified", file_path, matches, 0) >>]
      ELSE [ret |-> FALSE, write |-> FALSE, content |-> c, imports |-> a,
            out |-> << >>]

\* wrap_styles_with_stylesheet writing the file whenever the text changed,
\* the import change of Step A included
wrap_write_if_changed(file_path, c) ==
  IF HasStyleSheetCreate(c)
  THEN [ret |-> FALSE, write |-> FALSE, content |-> c, imports |-> c,
        out |-> << Msg("already", file_path, << >>, 0) >>]
  ELSE LET a == fix_stylesheet_imports(c)
           matches == re_findall_style(a)
           modified == matches # << >>
           new == IF modified THEN wrap_declarations(a) ELSE a
       IN  [ret |-> modified, write |-> new # c, content |-> new, imports |-> a,
            out |-> IF modified
                    THEN << Msg("modified", file_path, matches, 0) >>
                    ELSE << >>]

(***************************************************************************)
(* wrap_styles_with_stylesheet on a file that open() can read, whose text  *)
(* is c: what it returns, whether it writes the file, the text the file    *)
(* holds afterwards, the text Step A returned and the lines it prints.     *)
(***************************************************************************)
wrap_styles_with_stylesheet(file_path, c) ==
  IF HasStyleSheetCreate(c)
  THEN [ret |-> FALSE, write |-> FALSE, content |-> c, imports |-> c,
        out |-> << Msg("already", file_path, << >>, 0) >>]
  ELSE LET a == fix_stylesheet_imports(c)
           matches == re_findall_style(a)
           modified == matches # << >>
       IN  IF modified
           THEN [ret |-> TRUE, write |-> TRUE, content |-> wrap_declarations(a),
                 imports |-> a,
                 out |-> << Msg("modified", file_path, matches, 0) >>]
           ELSE [ret |-> FALSE, write |-> FALSE, content |-> c, imports |-> a,
                 out |-> << >>]

(***************************************************************************)
(* Input texts.                                                            *)
(***************************************************************************)
LDecl      == << "const", " ", "styles", " ", "=", " ", "{" >>
LDecl2     == << "const", " ", "cardStyle", " ", "=", " ", "{" >>
LExport    == << "export", " " >> \o LDecl
LOneLine   == LDecl \o << "}", ";" >>
LBody      == << " ", " ", "foo", ":", " ", "1", "," >>
LNestOpen  == << " ", " ", "foo", ":", " ", "{" >>
LNestClose == << " ", " ", "}", "," >>
LClose     == << "}", ";" >>
LImportRN  == << "import", " ", "{", " ", "View", " ", "}", " " >> \o RNFrom
LImportSS  == << "import", " ", "{", " ", "StyleSheet", " ", "}", " " >> \o RNFrom
LReact     == << "import", " ", "React", " ", "from", " ", "'react'", ";" >>
LCreate    == << "StyleSheet", ".", "create", "(", "styles", ")", ";" >>

LineTemplates ==
  { LDecl, LDecl2, LExport, LOneLine, LBody, LNestOpen, LNestClose, LClose,
    LImportRN, LImportSS, LReact, LCreate }

\* whole files: the texts the main loops of the two scripts are run on
Corpus ==
  { join_lines(<< LDecl, LBody, LClose >>),
    join_lines(<< LReact, LDecl, LBody, LClose >>),
    join_lines(<< LImportRN, LDecl, LBody, LClose >>),
    join_lines(<< LDecl, LClose, LDecl2, LClose >>),
    join_lines(<< LExport, LBody, LClose >>),
    join_lines(<< LOneLine, LClose >>),
    join_lines(<< LDecl, LClose, LCreate >>),
    join_lines(<< LCreate >>),
    join_lines(<< LImportRN >>),
    join_lines(<< LBody >>) }

\* every text of at most MaxLines lines drawn from the line templates
Texts ==
  { join_lines(ls) : ls \in UNION { [1..n -> LineTemplates] : n \in 0..MaxLines } }

TextInputs == Texts \cup Corpus

(***************************************************************************)
(* The file system.  A path is missing, or exists and cannot be read       *)
(* (permission, bytes that are not UTF-8, or gone by the time of open()),  *)
(* or exists and holds a text.                                             *)
(***************************************************************************)
Paths == 1..NumFiles

MissingFile    == [status |-> "missing", content |-> << >>]
UnreadableFile == [status |-> "unreadable", content |-> << >>]
TextFile(c)    == [status |-> "ok", content |-> c]

Files == {MissingFile, UnreadableFile} \cup { TextFile(c) : c \in Corpus }

\* os.path.exists(file_path)
os_path_exists(disk, p) == disk[p].status # "missing"

\* the hard-coded target list of main(): NumFiles distinct paths, in order
files_to_fix == [i \in 1..NumFiles |-> i]

\* the paths `find` printed, in its order
js_files == [i \in 1..NumFiles |-> i]

\* lines 27-44 appending one record for each matched name
RECURSIVE RecordPerMatch(_, _)
RecordPerMatch(file_path, names) ==
  IF names = << >> THEN << >>
  ELSE << [file |-> file_path, style_vars |-> << Head(names) >>] >>
         \o RecordPerMatch(file_path, Tail(names))

scan_file_record_per_match(file_path, c) ==
  LET style_matches == re_findall_style(c)
      has_stylesheet_create == HasStyleSheetCreate(c)
  IN  IF style_matches # << >>
      THEN IF ~has_stylesheet_create
           THEN [records |-> RecordPerMatch(file_path, style_matches),
                 out |-> << Msg("unwrapped", file_path, style_matches, 0) >>]
           ELSE [records |-> << >>,
                 out |-> << Msg("compliant", file_path, style_matches, 0) >>]
      ELSE [records |-> << >>, out |-> << >>]

\* lines 27-44 without the test of line 37
scan_file_no_create_check(file_path, c) ==
  LET style_matches == re_findall_style(c)
  IN  IF style_matches # << >>
      THEN [records |-> << [file |-> file_path, style_vars |-> style_matches] >>,
            out |-> << Msg("unwrapped", file_path, style_matches, 0) >>]
      ELSE [records |-> << >>, out |-> << >>]

\* find_unwrapped_styles, lines 27-44, on a file that was read: the records
\* it appends to unwrapped_files and the lines it prints
scan_file(file_path, c) ==
  LET style_matches == re_findall_style(c)
      has_stylesheet_create == HasStyleSheetCreate(c)
  IN  IF style_matches # << >>
      THEN IF ~has_stylesheet_create
           THEN [records |-> << [file |-> file_path, style_vars |-> style_matches] >>,
                 out |-> << Msg("unwrapped", file_path, style_matches, 0) >>]
           ELSE [records |-> << >>,
                 out |-> << Msg("compliant", file_path, style_matches, 0) >>]
      ELSE [records |-> << >>, out |-> << >>]

VARIABLES
  fs,              \* the files on disk: path -> file
  fs0,             \* the files on disk when the first run started
  pc,              \* where the running script is
  run,             \* Fixer: 1 in the first run, 2 in the second
  idx,             \* position of the loop in files_to_fix / js_files
  fixed_count,     \* Fixer: main's counter
  out,             \* the lines printed by the current run
  visited,         \* the paths the loop has taken up, in order
  opened,          \* the paths the current run has read
  written,         \* the paths the current run has written
  modified,        \* Fixer: the paths for which wrap_... returned True
  first,           \* Fixer: what the first run left, once the second started
  unwrapped_files, \* Scanner: the list being built and returned
  text,            \* single-file runs: the text of the file
  text0,           \* single-file runs: its text before the call
  res              \* single-file runs: what wrap_styles_with_stylesheet did

vars == << fs, fs0, pc, run, idx, fixed_count, out, visited, opened, written,
           modified, first, unwrapped_files, text, text0, res >>

NoFirst == [fs |-> << >>, modified |-> {}, pc |-> "none"]
NoRes   == [ret |-> FALSE, write |-> FALSE, content |-> << >>, imports |-> << >>,
            out |-> << >>]

fileVars == << fs, fs0, run, idx, fixed_count, out, visited, opened, written,
               modified, first, unwrapped_files >>
textVars == << text, text0, res >>

RunStart ==
  /\ idx = 1
  /\ fixed_count = 0
  /\ out = << >>
  /\ visited = << >>
  /\ opened = {}
  /\ written = {}
  /\ modified = {}
  /\ first = NoFirst
  /\ unwrapped_files = << >>

(***************************************************************************)
(* The Fixer: main() of fix_stylesheets.py, run twice in a row.            *)
(***************************************************************************)
InitFixer ==
  /\ fs0 \in [Paths -> Files]
  /\ fs = fs0
  /\ pc = "loop"
  /\ run = 1
  /\ RunStart
  /\ text = << >> /\ text0 = << >> /\ res = NoRes

\* line 121 false: the else branch, line 125
FileNotFound ==
  /\ pc = "loop" /\ idx <= NumFiles
  /\ ~os_path_exists(fs, files_to_fix[idx])
  /\ out' = Append(out, Msg("notfound", files_to_fix[idx], << >>, 0))
  /\ visited' = Append(visited, files_to_fix[idx])
  /\ idx' = idx + 1
  /\ UNCHANGED << fs, fs0, pc, run, fixed_count, opened, written, modified,
                  first, unwrapped_files >>
  /\ UNCHANGED textVars

\* line 44 raises: nothing in wrap_styles_with_stylesheet or main catches it
OpenRaises ==
  /\ pc = "loop" /\ idx <= NumFiles
  /\ fs[files_to_fix[idx]].status = "unreadable"
  /\ visited' = Append(visited, files_to_fix[idx])
  /\ pc' = "raised"
  /\ UNCHANGED << fs, fs0, run, idx, fixed_count, out, opened, written,
                  modified, first, unwrapped_files >>
  /\ UNCHANGED textVars

\* lines 122-123 on a file that is read
WrapFile ==
  /\ pc = "loop" /\ idx <= NumFiles
  /\ fs[files_to_fix[idx]].status = "ok"
  /\ LET p == files_to_fix[idx]
         r == wrap_styles_with_stylesheet(p, fs[p].content)
     IN  /\ fs' = IF r.write THEN [fs EXCEPT ![p] = TextFile(r.content)] ELSE fs
         /\ written' = IF r.write THEN written \cup {p} ELSE written
         /\ opened' = opened \cup {p}
         /\ modified' = IF r.ret THEN modified \cup {p} ELSE modified
         /\ fixed_count' = IF r.ret THEN fixed_count + 1 ELSE fixed_count
         /\ out' = out \o r.out
         /\ visited' = Append(visited, p)
  /\ idx' = idx + 1
  /\ UNCHANGED << fs0, pc, run, first, unwrapped_files >>
  /\ UNCHANGED textVars

\* line 127
Summary ==
  /\ pc = "loop" /\ idx > NumFiles
  /\ out' = Append(out, Msg("summary", 0, << >>, fixed_count))
  /\ pc' = "done"
  /\ UNCHANGED << fs, fs0, run, idx, fixed_count, visited, opened, written,
                  modified, first, unwrapped_files >>
  /\ UNCHANGED textVars

\* the script is started again on the files the first run left
Rerun ==
  /\ pc \in {"done", "raised"} /\ run = 1
  /\ first' = [fs |-> fs, modified |-> modified, pc |-> pc]
  /\ run' = 2
  /\ pc' = "loop"
  /\ idx' = 1
  /\ fixed_count' = 0
  /\ out' = << >>
  /\ visited' = << >>
  /\ opened' = {}
  /\ written' = {}
  /\ modified' = {}
  /\ UNCHANGED << fs, fs0, unwrapped_files >>
  /\ UNCHANGED textVars

NextFixer == FileNotFound \/ OpenRaises \/ WrapFile \/ Summary \/ Rerun

SpecFixer == InitFixer /\ [][NextFixer]_vars

(***************************************************************************)
(* Properties of the Fixer.                                                *)
(***************************************************************************)
\* the current run printed a line of this kind for path p
Reported(kind, p) ==
  \E k \in 1..Len(out) : out[k].kind = kind /\ out[k].file = p

\* the files on disk when the current run started
RunStartFs == IF run = 1 THEN fs0 ELSE first.fs

\* the style pattern matches somewhere in c
HasDeclaration(c) == \E p \in 1..Len(c) : StyleMatch(c, p) > 0

\* C1: idempotence of the Fixer.  All through a second run in a row, every
\* file holds the text the first run left, no file has been written, the
\* counter is 0, and when the second run has ended, it has reported every
\* file the first run modified as already using StyleSheet.create; its
\* summary, when printed, counts 0 files.
C1_Idempotent ==
  run = 2 =>
    /\ fs = first.fs
    /\ written = {}
    /\ modified = {}
    /\ fixed_count = 0
    /\ pc # "loop" => \A p \in first.modified : Reported("already", p)
    /\ pc = "done" => out[Len(out)] = Msg("summary", 0, << >>, 0)

\* a second run that has ended, after a first run that modified a file
C1_Witness == run = 2 /\ pc = "done" /\ first.modified # {}

\* C4: already-wrapped files are left alone.  When the loop takes up a
\* readable file whose text holds 'StyleSheet.create', the step writes no
\* file (every file keeps its text, so no import change of Step A lands
\* either), prints the already-wrapped line for it and nothing else, and
\* leaves the counter and the set of modified files as they were.
C4_AlreadyWrappedUntouched ==
  [][ ( /\ pc = "loop" /\ idx <= NumFiles
        /\ fs[files_to_fix[idx]].status = "ok"
        /\ HasStyleSheetCreate(fs[files_to_fix[idx]].content) )
      => ( /\ fs' = fs
           /\ written' = written
           /\ modified' = modified
           /\ fixed_count' = fixed_count
           /\ out' = Append(out, Msg("already", files_to_fix[idx], << >>, 0))
           /\ idx' = idx + 1
           /\ pc' = "loop" ) ]_vars

\* the first run has reported a file as already wrapped
C4_Witness ==
  run = 1 /\ \E p \in Paths :
    /\ Reported("already", p)
    /\ HasDeclaration(fs0[p].content)
    /\ fs[p] = fs0[p]

\* C5, as claimed: when a run over a target list with a missing path has
\* ended, it has printed the File-not-found warning for every missing path,
\* has neither read nor written one, has taken up every path of the list in
\* list order, and has printed the final summary.
C5_MissingPathsDoNotStop ==
  (pc # "loop" /\ \E p \in Paths : ~os_path_exists(fs, p)) =>
    /\ \A p \in Paths : ~os_path_exists(fs, p) =>
          Reported("notfound", p) /\ p \notin opened \cup written
    /\ visited = files_to_fix
    /\ pc = "done"
    /\ out[Len(out)].kind = "summary"

\* C6, as claimed, for the Fixer: a file that exists and cannot be read is
\* reported by a warning and skipped, and no exception leaves main.
C6_NoFailureAborts ==
  /\ pc # "raised"
  /\ \A k \in 1..Len(visited) :
        fs[visited[k]].status = "unreadable" => Reported("error", visited[k])

\* C9: writes and the modified count agree.  In every state of a run, a
\* written file is a readable one in which the style pattern matched and
\* which did not hold 'StyleSheet.create', and its text differs from the
\* text it had when the run started; every other file is as it was when
\* the run started; the counter is the number of files whose text differs;
\* and the summary prints that number.
C9_WritesMatchCount ==
  LET changed == { p \in Paths : fs[p] # RunStartFs[p] }
  IN  /\ \A p \in written :
           /\ RunStartFs[p].status = "ok"
           /\ HasDeclaration(RunStartFs[p].content)
           /\ ~HasStyleSheetCreate(RunStartFs[p].content)
      /\ changed = written
      /\ fixed_count = Cardinality(changed)
      /\ pc = "done" =>
           out[Len(out)] = Msg("summary", 0, << >>, Cardinality(changed))

\* a finished first run that wrote one file and left alone a file for which
\* Step A alone computed an import change
C9_Witness ==
  /\ run = 1 /\ pc = "done" /\ written # {}
  /\ \E p \in opened \ written :
       /\ ~HasStyleSheetCreate(fs0[p].content)
       /\ fix_stylesheet_imports(fs0[p].content) # fs0[p].content

(***************************************************************************)
(* The Scanner: find_unwrapped_styles.py.                                  *)
(***************************************************************************)
InitScanner ==
  /\ fs0 \in [Paths -> Files]
  /\ fs = fs0
  /\ pc = "scan"
  /\ run = 1
  /\ RunStart
  /\ text = << >> /\ text0 = << >> /\ res = NoRes

\* lines 18-19
ScanMissing ==
  /\ pc = "scan" /\ idx <= NumFiles
  /\ ~os_path_exists(fs, js_files[idx])
  /\ visited' = Append(visited, js_files[idx])
  /\ idx' = idx + 1
  /\ UNCHANGED << fs, fs0, pc, run, fixed_count, out, opened, written, modified,
                  first, unwrapped_files >>
  /\ UNCHANGED textVars

\* lines 21-23 raise, lines 45-46 catch
ScanReadError ==
  /\ pc = "scan" /\ idx <= NumFiles
  /\ fs[js_files[idx]].status = "unreadable"
  /\ out' = Append(out, Msg("error", js_files[idx], << >>, 0))
  /\ visited' = Append(visited, js_files[idx])
  /\ idx' = idx + 1
  /\ UNCHANGED << fs, fs0, pc, run, fixed_count, opened, written, modified,
                  first, unwrapped_files >>
  /\ UNCHANGED textVars

\* lines 21-44 on a file that is read
ScanFile ==
  /\ pc = "scan" /\ idx <= NumFiles
  /\ fs[js_files[idx]].status = "ok"
  /\ LET p == js_files[idx]
         r == scan_file(p, fs[p].content)
     IN  /\ unwrapped_files' = unwrapped_files \o r.records
         /\ out' = out \o r.out
         /\ opened' = opened \cup {p}
         /\ visited' = Append(visited, p)
  /\ idx' = idx + 1
  /\ UNCHANGED << fs, fs0, pc, run, fixed_count, written, modified, first >>
  /\ UNCHANGED textVars

\* line 48 and the summary of lines 52-55
ScanReturn ==
  /\ pc = "scan" /\ idx > NumFiles
  /\ out' = Append(out, Msg("summary", 0, << >>, Len(unwrapped_files)))
  /\ pc' = "done"
  /\ UNCHANGED << fs, fs0, run, idx, fixed_count, visited, opened, written,
                  modified, first, unwrapped_files >>
  /\ UNCHANGED textVars

NextScanner == ScanMissing \/ ScanReadError \/ ScanFile \/ ScanReturn

SpecScanner == InitScanner /\ [][NextScanner]_vars

(***************************************************************************)
(* Properties of the Scanner.                                              *)
(***************************************************************************)
\* the paths the loop has taken up
Scanned == { visited[k] : k \in 1..Len(visited) }

\* position of path p in the enumeration
PosInJsFiles(p) == CHOOSE i \in 1..NumFiles : js_files[i] = p

\* the positions of c at which the style pattern matches
DeclPositions(c) == { p \in 1..Len(c) : StyleMatch(c, p) > 0 }

\* names are the variable names of the declarations of c, in order of
\* occurrence
NamesInOrder(c, names) ==
  /\ Len(names) = Cardinality(DeclPositions(c))
  /\ \A p \in DeclPositions(c) :
       names[Cardinality({ q \in DeclPositions(c) : q <= p })]
         = c[StyleNamePos(c, p)]

\* a readable file with a declaration and without 'StyleSheet.create'
NonCompliant(p) ==
  /\ fs[p].status = "ok"
  /\ DeclPositions(fs[p].content) # {}
  /\ ~HasStyleSheetCreate(fs[p].content)

\* the records of the list that are about path p
RecordsOf(p) == { k \in 1..Len(unwrapped_files) : unwrapped_files[k].file = p }

\* C7: the Scanner's result.  At every point of the scan, and so when the
\* list is returned, the list holds exactly one record for each file taken
\* up so far that is readable, has a match of the style pattern and has no
\* 'StyleSheet.create', and no other record; the records stand in
\* enumeration order; each holds all the matched names of its file, in
\* order of occurrence.
C7_ScannerResult ==
  /\ \A k \in 1..Len(unwrapped_files) :
       /\ unwrapped_files[k].file \in Scanned
       /\ NonCompliant(unwrapped_files[k].file)
       /\ NamesInOrder(fs[unwrapped_files[k].file].content,
                       unwrapped_files[k].style_vars)
  /\ \A p \in Scanned : NonCompliant(p) => Cardinality(RecordsOf(p)) = 1
  /\ \A k, l \in 1..Len(unwrapped_files) :
       k < l => PosInJsFiles(unwrapped_files[k].file)
                  < PosInJsFiles(unwrapped_files[l].file)

\* the scan has returned a record with two names, and has left out a
\* readable file
C7_Witness ==
  /\ pc = "done"
  /\ \E k \in 1..Len(unwrapped_files) : Len(unwrapped_files[k].style_vars) = 2
  /\ \E p \in opened : RecordsOf(p) = {}

\* C8, as claimed: every file that was read and holds 'StyleSheet.create'
\* is reported with the compliant status and is not in the list.
C8_CreateAlwaysReportedCompliant ==
  \A p \in opened :
    HasStyleSheetCreate(fs[p].content) =>
      Reported("compliant", p) /\ RecordsOf(p) = {}

\* C8, amended: every file that was read and holds 'StyleSheet.create' is
\* never in the list and never reported as unwrapped; it is reported with
\* the compliant status exactly when the style pattern matches in it, and
\* when the pattern does not match, no line is printed for it.
C8_CreateNeverListed ==
  \A p \in opened :
    HasStyleSheetCreate(fs[p].content) =>
      /\ RecordsOf(p) = {}
      /\ ~Reported("unwrapped", p)
      /\ Reported("compliant", p) <=> DeclPositions(fs[p].content) # {}
      /\ DeclPositions(fs[p].content) = {} =>
           \A k \in 1..Len(out) : out[k].file # p

\* a file with declarations and 'StyleSheet.create' was read and reported
\* compliant
C8_Witness ==
  \E p \in opened :
    /\ HasStyleSheetCreate(fs[p].content)
    /\ DeclPositions(fs[p].content) # {}
    /\ Reported("compliant", p)

(***************************************************************************)
(* wrap_styles_with_stylesheet called once, on one readable file.          *)
(***************************************************************************)
InitText ==
  /\ text0 \in TextInputs
  /\ text = text0
  /\ res = NoRes
  /\ pc = "call"
  /\ fs0 = << >> /\ fs = << >>
  /\ run = 1
  /\ RunStart

WrapText ==
  /\ pc = "call"
  /\ res' = wrap_styles_with_stylesheet(1, text)
  /\ text' = res'.content
  /\ pc' = "returned"
  /\ UNCHANGED text0
  /\ UNCHANGED fileVars

NextText == WrapText

SpecText == InitText /\ [][NextText]_vars

(***************************************************************************)
(* Properties of wrap_styles_with_stylesheet.                              *)
(***************************************************************************)
\* the call has returned from a file that had no 'StyleSheet.create'
WrapReturned == pc = "returned" /\ ~HasStyleSheetCreate(text0)

\* the lines once the openings are rewritten (line 70), and the lines of
\* the file after the call
LinesBefore == split_lines(re_sub_style(res.imports))
LinesAfter  == split_lines(text)

\* opening braces minus closing braces of a line
Balance(l) == count(l, "{") - count(l, "}")

\* the brace depth summed over lines i..j
RECURSIVE Depth(_, _, _)
Depth(lines, i, j) ==
  IF j < i THEN 0 ELSE Depth(lines, i, j - 1) + Balance(lines[j])

\* the first line from i on at which the depth summed from line i is zero
\* and that holds a closing brace; 0 when there is none
ScanEnd(lines, i) ==
  LET S == { j \in i..Len(lines) :
               Depth(lines, i, j) = 0 /\ count(lines[j], "}") > 0 }
  IN  IF S = {} THEN 0 ELSE CHOOSE j \in S : \A k \in S : j <= k

\* the lines that open a wrapped declaration at their start
Decls(lines) == { i \in 1..Len(lines) : IsWrappedOpening(lines[i]) }

\* the scan of declaration i ends on a line that is exactly };
Closed(lines, i) ==
  ScanEnd(lines, i) # 0 /\ strip(lines[ScanEnd(lines, i)]) = << "}", ";" >>

\* the scan of declaration i ends on a line that is not exactly };
Unclosed(lines, i) ==
  ScanEnd(lines, i) # 0 /\ strip(lines[ScanEnd(lines, i)]) # << "}", ";" >>

\* C10: unclosed declarations.  After a call that found declarations, the
\* only lines that differ from the lines with the openings rewritten are
\* the lines on which the scan of a declaration ended (the first line from
\* the declaration on with brace depth zero and a closing brace) and that
\* were exactly }; and those read });.  So for a declaration whose scan
\* ended on a line that is not exactly }; the opening stays wrapped, that
\* line stays as it was and no later line is changed unless the scan of
\* another declaration ended on it; and the file is written, True is
\* returned and the only line printed is the modified line.
C10_UnclosedLeftAsIs ==
  (WrapReturned /\ re_findall_style(res.imports) # << >>) =>
    LET before == LinesBefore
        after  == LinesAfter
        ends   == { ScanEnd(before, d) : d \in { d \in Decls(before) : Closed(before, d) } }
    IN  /\ Len(after) = Len(before)
        /\ \A k \in 1..Len(before) :
             IF k \in ends
             THEN strip(after[k]) = << "}", ")", ";" >>
             ELSE after[k] = before[k]
        /\ \A i \in Decls(before) :
             Unclosed(before, i) =>
               /\ IsWrappedOpening(after[i])
               /\ after[ScanEnd(before, i)] = before[ScanEnd(before, i)]
               /\ \A k \in (ScanEnd(before, i) + 1)..Len(before) :
                    after[k] # before[k] =>
                      \E d \in Decls(before) \ {i} :
                        Closed(before, d) /\ ScanEnd(before, d) = k
        /\ res.write /\ res.ret
        /\ res.out = << Msg("modified", 1, re_findall_style(res.imports), 0) >>

\* a call that left a declaration unclosed, with a later line that is
\* exactly }; and was not changed
C10_Witness ==
  /\ WrapReturned /\ res.write
  /\ \E i \in Decls(LinesBefore) :
       /\ Unclosed(LinesBefore, i)
       /\ \E k \in (ScanEnd(LinesBefore, i) + 1)..Len(LinesBefore) :
            /\ strip(LinesBefore[k]) = << "}", ";" >>
            /\ LinesAfter[k] = LinesBefore[k]

\* the wrapped call with its opening brace, as the replacement writes it
CreateOpen == << "StyleSheet", ".", "create", "(", "{" >>

\* the position of the "}" that closes the "{" at position s of c, the
\* depth being d at position p; 0 when it is never closed
RECURSIVE MatchClose(_, _, _)
MatchClose(c, p, d) ==
  IF p > Len(c) THEN 0
  ELSE IF c[p] = "{" THEN MatchClose(c, p + 1, d + 1)
  ELSE IF c[p] = "}" THEN IF d = 1 THEN p ELSE MatchClose(c, p + 1, d - 1)
  ELSE MatchClose(c, p + 1, d)

\* the number of the line of c that holds position p
LineOf(c, p) == 1 + Cardinality({ q \in 1..(p - 1) : c[q] = "\n" })

\* C2, as claimed: after a call on a file without 'StyleSheet.create',
\* every declaration the style pattern matched has its opening rewritten to
\* the wrapped call, and the line that closes its object literal, when it
\* is exactly }; reads }); wherever the declaration sits on its line.
C2_EveryDeclarationClosed ==
  WrapReturned =>
    LET b == re_sub_style(res.imports)
    IN  /\ Cardinality({ p \in 1..Len(text) : LiteralAt(text, p, CreateOpen) })
             = Len(re_findall_style(text0))
        /\ \A p \in 1..Len(b) :
             LiteralAt(b, p, CreateOpen) =>
               LET m == MatchClose(b, p + 5, 1)
               IN  (m # 0 /\ strip(LinesBefore[LineOf(b, m)]) = << "}", ";" >>)
                     => strip(LinesAfter[LineOf(b, m)]) = << "}", ")", ";" >>

\* the import statement with StyleSheet added to the imported set
LImportRNWithStyleSheet ==
  << "import", " ", "{", " ", "View", ",", " ", "StyleSheet", " ", "}", " " >>
    \o RNFrom

\* C3, as claimed: for a file without 'StyleSheet' that imports a set of
\* names from 'react-native', fix_stylesheet_imports returns the text with
\* StyleSheet added to that set, the names it had kept, and no other change.
C3_StyleSheetAddedToImport ==
  ( /\ pc = "returned"
    /\ ~HasStyleSheet(text0)
    /\ \E i \in 1..Len(split_lines(text0)) : split_lines(text0)[i] = LImportRN )
  => split_lines(res.imports)
       = [ i \in 1..Len(split_lines(text0)) |->
             IF split_lines(text0)[i] = LImportRN
             THEN LImportRNWithStyleSheet
             ELSE split_lines(text0)[i] ]

====
